---------------------------- MODULE Spec2Model ----------------------------
(***************************************************************************)
(* The call/create orchestration layer of the EVM (geth/core/vm/evm.go):   *)
(* Call, CallCode, DelegateCall, StaticCall, create (Create, Create2).     *)
(*                                                                         *)
(* The state store, the transfer callbacks, the precompiled contracts, the *)
(* interpreter and the address-derivation hashes are collaborators whose   *)
(* code is not in the file; they are modelled at their interface.  The     *)
(* interpreter is nondeterministic: while a frame runs it may write        *)
(* storage, invoke the orchestrator again, and return any output, any      *)
(* leftover gas not above the gas of the frame, and any outcome.           *)
(* Tracer hooks (Config.Debug) and the input bytes do not influence the    *)
(* orchestrator's results and are left out.                                *)
(***************************************************************************)
EXTENDS Integers, Sequences, FiniteSets, TLC

\* ------------------------------------------------------------------ bounds
\* Number of orchestrator invocations (top-level and nested) in one behaviour.
MaxOps == 2
\* Number of frames the modelled part of the recursion tree nests.
MaxFrames == 2
\* Width of the modelled nonce: uint64 arithmetic is taken modulo 2^NonceBits.
NonceBits == 2

\* ------------------------------------------------------- program constants
\* params.CallCreateDepth
CallCreateDepth == 1024
\* params.MaxCodeSize
MaxCodeSize == 24576
\* params.CreateDataGas
CreateDataGas == 200

RECURSIVE Pow2(_)
Pow2(n) == IF n = 0 THEN 1 ELSE 2 * Pow2(n - 1)
\* The largest value of the nonce type.
MaxNonce == Pow2(NonceBits) - 1

\* --------------------------------------------------------------- addresses
\* 5 is a precompile from Byzantium on and an ordinary address before; 10 and
\* 11 are ordinary accounts.
Addr == {5, 10, 11}
\* The callers of top-level operations.
Origins == {10}
\* common.Address{}
ZeroAddress == 0

\* ------------------------------------------------------------- byte strings
\* A byte string is kept as its length and its first byte (0 when empty): the
\* orchestrator reads nothing else of an output or of a code image.
Bytes(first, len) == [first |-> first, len |-> len]
NoBytes == Bytes(0, 0)
\* Outputs a run of deployment code may hand back: none, a code image, one
\* that starts with 0xEF, one that is too long, one that is both.
Outputs ==
  {NoBytes, Bytes(96, 1), Bytes(239, 1), Bytes(96, MaxCodeSize + 1),
   Bytes(239, MaxCodeSize + 1)}
\* Outputs a run of deployed code may hand back.
CallOutputs == {NoBytes, Bytes(96, 1)}
\* The output that comes with a revert (the revert data).
RevertOutput == Bytes(8, 1)
\* Deployment code handed to Create and Create2.
InitCodes == {Bytes(96, 2)}
\* Salts handed to Create2.
Salts == {0, 1}
\* Values attached to an operation.
Values == {0, 1}
\* Gas budgets and leftovers.
GasVals == {100, 300}
\* Gas budgets of the operations no frame encloses.
TopGas == {300}

\* ------------------------------------------------------------------ errors
Nil == "nil"
ErrDepth == "ErrDepth"
ErrInsufficientBalance == "ErrInsufficientBalance"
ErrNonceUintOverflow == "ErrNonceUintOverflow"
ErrContractAddressCollision == "ErrContractAddressCollision"
ErrMaxCodeSizeExceeded == "ErrMaxCodeSizeExceeded"
ErrInvalidCode == "ErrInvalidCode"
ErrCodeStoreOutOfGas == "ErrCodeStoreOutOfGas"
ErrExecutionReverted == "ErrExecutionReverted"
\* Any other failure the interpreter or a precompile reports.
ErrFault == "ErrFault"
\* The outcomes of an interpreter run.
RunErrors == {Nil, ErrExecutionReverted, ErrFault}

\* ------------------------------------------------------------------- hashes
\* crypto.Keccak256Hash, injective on the modelled byte strings.
Keccak256Hash(code) == <<"keccak", code>>
\* common.Hash{}
ZeroHash == <<"zero">>
emptyCodeHash == Keccak256Hash(NoBytes)

\* -------------------------------------------------------------- fork rules
Forks == {"Frontier", "Homestead", "EIP158", "Byzantium", "Berlin", "London"}
ForkLevel(f) ==
  CASE f = "Frontier" -> 0 [] f = "Homestead" -> 1 [] f = "EIP158" -> 2
    [] f = "Byzantium" -> 3 [] f = "Berlin" -> 4 [] f = "London" -> 5
\* params.Rules, as chainConfig.Rules derives it for the block.
Rules(f) ==
  [IsHomestead |-> ForkLevel(f) >= 1, IsEIP158 |-> ForkLevel(f) >= 2,
   IsByzantium |-> ForkLevel(f) >= 3, IsIstanbul |-> ForkLevel(f) >= 4,
   IsBerlin |-> ForkLevel(f) >= 4, IsLondon |-> ForkLevel(f) >= 5]

\* evm.precompile: the precompiled contracts of the active fork, restricted to
\* the modelled addresses (Homestead has 1..4, Byzantium 1..8, Istanbul and
\* Berlin 1..9).
PrecompiledContractsHomestead == {}
PrecompiledContractsByzantium == {5}
PrecompiledContractsIstanbul == {5}
PrecompiledContractsBerlin == {5}
precompile(rules, addr) ==
  LET precompiles ==
        CASE rules.IsBerlin -> PrecompiledContractsBerlin
          [] ~rules.IsBerlin /\ rules.IsIstanbul -> PrecompiledContractsIstanbul
          [] ~rules.IsBerlin /\ ~rules.IsIstanbul /\ rules.IsByzantium ->
               PrecompiledContractsByzantium
          [] OTHER -> PrecompiledContractsHomestead
  IN addr \in precompiles

\* ------------------------------------------------------------- state store
\* The journaled content of the state store.
EmptyWorld ==
  [bal |-> [a \in Addr |-> 0], nonce |-> [a \in Addr |-> 0],
   code |-> [a \in Addr |-> NoBytes], exist |-> [a \in Addr |-> FALSE],
   storage |-> [a \in Addr |-> 0], access |-> {}]
NewStateDB(w) == [world |-> w, revisions |-> <<>>, nextRevisionId |-> 0]

Exist(s, a) == s.world.exist[a]
GetNonce(s, a) == s.world.nonce[a]
GetCode(s, a) == s.world.code[a]
GetBalance(s, a) == s.world.bal[a]
\* The zero hash for an account that does not exist.
GetCodeHash(s, a) ==
  IF Exist(s, a) THEN Keccak256Hash(GetCode(s, a)) ELSE ZeroHash
SetNonce(s, a, n) ==
  [s EXCEPT !.world.nonce[a] = n, !.world.exist[a] = TRUE]
SetCode(s, a, c) ==
  [s EXCEPT !.world.code[a] = c, !.world.exist[a] = TRUE]
AddBalance(s, a, v) ==
  [s EXCEPT !.world.bal[a] = @ + v, !.world.exist[a] = TRUE]
SubBalance(s, a, v) ==
  [s EXCEPT !.world.bal[a] = @ - v, !.world.exist[a] = TRUE]
SetState(s, a, v) ==
  [s EXCEPT !.world.storage[a] = v, !.world.exist[a] = TRUE]
\* A fresh account object; the balance of a previous object is carried over.
CreateAccount(s, a) ==
  [s EXCEPT !.world.nonce[a] = 0, !.world.code[a] = NoBytes,
            !.world.storage[a] = 0, !.world.exist[a] = TRUE]
AddAddressToAccessList(s, a) ==
  [s EXCEPT !.world.access = @ \cup {a}]
\* The identifier Snapshot returns.
SnapshotId(s) == s.nextRevisionId
Snapshot(s) ==
  [s EXCEPT !.revisions = Append(@, [id |-> s.nextRevisionId, world |-> s.world]),
            !.nextRevisionId = @ + 1]
ValidRevision(s, id) == \E i \in 1..Len(s.revisions) : s.revisions[i].id = id
RevisionIndex(s, id) ==
  CHOOSE i \in 1..Len(s.revisions) : s.revisions[i].id = id
\* Restores the content recorded by the revision and drops it and the later ones.
RevertToSnapshot(s, id) ==
  LET i == RevisionIndex(s, id)
  IN [s EXCEPT !.world = s.revisions[i].world,
               !.revisions = SubSeq(@, 1, i - 1)]

\* BlockContext.CanTransfer and BlockContext.Transfer.
CanTransfer(s, a, v) == GetBalance(s, a) >= v
Transfer(s, from, to, v) == AddBalance(SubBalance(s, from, v), to, v)

\* RunPrecompiledContract: the outcomes of a precompile run on a gas budget.
PrecompileCost == 150
PrecompiledOutcomes(gas) ==
  IF gas < PrecompileCost
  THEN {[ret |-> NoBytes, gas |-> 0, err |-> ErrFault]}
  ELSE {[ret |-> IF e = Nil THEN Bytes(96, 1) ELSE NoBytes,
         gas |-> gas - PrecompileCost, err |-> e] : e \in {Nil, ErrFault}}

\* crypto.CreateAddress and crypto.CreateAddress2, restricted to the modelled
\* addresses: deterministic functions of their arguments.
CreateAddress(b, nonce) == IF (b + nonce) % 2 = 0 THEN 11 ELSE 10
CreateAddress2(b, salt, inithash) == IF salt % 2 = 0 THEN 11 ELSE 10

\* ------------------------------------------------------- what an operation did
\* The snapshot field of an operation that took no snapshot.
NoSnapshot == 0 - 1
\* What the orchestrator did on behalf of one operation, kept beside its
\* result: the snapshot it took and the content of the store at that moment,
\* the number of Transfer calls, whether CanTransfer was consulted, what was
\* run ("none", "precompile" or "interpreter") and the (ret, gas, err) the run
\* handed back, and whether RevertToSnapshot was called.
NoTrace ==
  [snapshot |-> NoSnapshot, snap |-> EmptyWorld, transfers |-> 0,
   guard |-> FALSE, ran |-> "none",
   handed |-> [ret |-> NoBytes, gas |-> 0, err |-> Nil], reverted |-> FALSE]
\* An operation that has returned (ret, gas, err) and, for create, address.
Returned(s, ret, address, gas, err, trace) ==
  [kind |-> "return", db |-> s, ret |-> ret, address |-> address, gas |-> gas,
   err |-> err, trace |-> trace]
\* An operation that has handed a contract to interpreter.Run.
Running(s, self, gas, readOnly, trace) ==
  [kind |-> "run", db |-> s, self |-> self, gas |-> gas, readOnly |-> readOnly,
   trace |-> [trace EXCEPT !.ran = "interpreter"]]

\* ------------------------------------------------------------- call family
\* DepthExceeded without the check.
DepthExceeded_Never(d) == FALSE

\* DepthExceeded with the limit off by one.
DepthExceeded_OffByOne(d) == d > CallCreateDepth + 1

\* "Fail if we're trying to execute above the call depth limit".
DepthExceeded(d) == d > CallCreateDepth

\* GasOnError without the consumption of the gas.
GasOnError_Keep(err, gas) == gas

\* The gas an operation of the call family returns with an error.
GasOnError(err, gas) == IF err # ErrExecutionReverted THEN 0 ELSE gas

\* RevertOnError that reverts to the oldest snapshot in the store.
RevertOnError_Outermost(s, snapshot, gas, err) ==
  IF err # Nil
  THEN [db |-> RevertToSnapshot(s, s.revisions[1].id),
        gas |-> GasOnError(err, gas), reverted |-> TRUE]
  ELSE [db |-> s, gas |-> gas, reverted |-> FALSE]

\* RevertOnError that reverts whatever the outcome.
RevertOnError_Always(s, snapshot, gas, err) ==
  [db |-> RevertToSnapshot(s, snapshot), gas |-> gas, reverted |-> TRUE]

\* RevertOnError without the call of RevertToSnapshot.
RevertOnError_NoRevert(s, snapshot, gas, err) ==
  IF err # Nil
  THEN [db |-> s, gas |-> GasOnError(err, gas), reverted |-> FALSE]
  ELSE [db |-> s, gas |-> gas, reverted |-> FALSE]

\* The end of Call, CallCode, DelegateCall and StaticCall: on an error the
\* store is reverted to the snapshot and, unless the error is a revert, the
\* gas is consumed.
RevertOnError(s, snapshot, gas, err) ==
  IF err # Nil
  THEN [db |-> RevertToSnapshot(s, snapshot), gas |-> GasOnError(err, gas),
        reverted |-> TRUE]
  ELSE [db |-> s, gas |-> gas, reverted |-> FALSE]

\* The result of an operation of the call family whose dispatch handed back
\* (ret, gas, err).
CallFinish(s, trace, ret, gas, err) ==
  LET f == RevertOnError(s, trace.snapshot, gas, err)
  IN Returned(f.db, ret, ZeroAddress, f.gas, err,
              [trace EXCEPT !.reverted = f.reverted,
                            !.handed = [ret |-> ret, gas |-> gas, err |-> err]])

\* The result of RunPrecompiledContract, taken as it is.
PrecompileFinish(s, trace, pc) ==
  CallFinish(s, [trace EXCEPT !.ran = "precompile"], pc.ret, pc.gas, pc.err)

\* The transfer guard of Call: consulted for a non-zero value only.
CallGuardDeclines(s, caller, value) ==
  value # 0 /\ ~CanTransfer(s, caller, value)

\* GuardDeclines without the consultation of the guard.
GuardDeclines_Never(s, caller, value) == FALSE

\* The transfer guard of CallCode and of create: consulted for every value.
GuardDeclines(s, caller, value) == ~CanTransfer(s, caller, value)

\* CallIsNoop with the shortcut left out.
CallIsNoop_Never(s, rules, addr, value) == FALSE

\* "Calling a non existing account, don't do anything".
CallIsNoop(s, rules, addr, value) ==
  ~Exist(s, addr) /\ ~precompile(rules, addr) /\ rules.IsEIP158 /\ value = 0

\* CodeIsEmpty without the shortcut: every code is run.
CodeIsEmpty_Never(code) == FALSE

\* len(code) == 0: nothing to run, "gas is unchanged".
CodeIsEmpty(code) == code.len = 0

\* Call with the transfer left out when the value is zero.
Call_TransferIfValue(s, d, rules, caller, addr, gas, value, pc) ==
  IF DepthExceeded(d) THEN Returned(s, NoBytes, ZeroAddress, gas, ErrDepth, NoTrace)
  ELSE IF CallGuardDeclines(s, caller, value)
  THEN Returned(s, NoBytes, ZeroAddress, gas, ErrInsufficientBalance,
                [NoTrace EXCEPT !.guard = TRUE])
  ELSE
    LET s1 == Snapshot(s)
        t1 == [NoTrace EXCEPT !.snapshot = SnapshotId(s), !.snap = s.world,
                              !.guard = (value # 0)]
    IN IF CallIsNoop(s1, rules, addr, value)
       THEN Returned(s1, NoBytes, ZeroAddress, gas, Nil, t1)
       ELSE
         LET s2 == IF ~Exist(s1, addr) THEN CreateAccount(s1, addr) ELSE s1
             s3 == IF value # 0 THEN Transfer(s2, caller, addr, value) ELSE s2
             t3 == [t1 EXCEPT !.transfers = IF value # 0 THEN 1 ELSE 0]
         IN IF precompile(rules, addr)
            THEN PrecompileFinish(s3, t3, pc)
            ELSE IF CodeIsEmpty(GetCode(s3, addr))
            THEN CallFinish(s3, t3, NoBytes, gas, Nil)
            ELSE Running(s3, addr, gas, FALSE, t3)

\* EVM.Call up to the dispatch; pc is the outcome of the precompile, if one runs.
Call(s, d, rules, caller, addr, gas, value, pc) ==
  IF DepthExceeded(d) THEN Returned(s, NoBytes, ZeroAddress, gas, ErrDepth, NoTrace)
  ELSE IF CallGuardDeclines(s, caller, value)
  THEN Returned(s, NoBytes, ZeroAddress, gas, ErrInsufficientBalance,
                [NoTrace EXCEPT !.guard = TRUE])
  ELSE
    LET s1 == Snapshot(s)
        t1 == [NoTrace EXCEPT !.snapshot = SnapshotId(s), !.snap = s.world,
                              !.guard = (value # 0)]
    IN IF CallIsNoop(s1, rules, addr, value)
       THEN Returned(s1, NoBytes, ZeroAddress, gas, Nil, t1)
       ELSE
         LET s2 == IF ~Exist(s1, addr) THEN CreateAccount(s1, addr) ELSE s1
             s3 == Transfer(s2, caller, addr, value)
             t3 == [t1 EXCEPT !.transfers = 1]
         IN IF precompile(rules, addr)
            THEN PrecompileFinish(s3, t3, pc)
            ELSE IF CodeIsEmpty(GetCode(s3, addr))
            THEN CallFinish(s3, t3, NoBytes, gas, Nil)
            ELSE Running(s3, addr, gas, FALSE, t3)

\* CallCode that does what Call does.
CallCode_AsCall(s, d, rules, caller, addr, gas, value, pc) ==
  Call(s, d, rules, caller, addr, gas, value, pc)

\* CallCode with the transfer guard consulted before the depth check.
CallCode_GuardFirst(s, d, rules, caller, addr, gas, value, pc) ==
  IF GuardDeclines(s, caller, value)
  THEN Returned(s, NoBytes, ZeroAddress, gas, ErrInsufficientBalance,
                [NoTrace EXCEPT !.guard = TRUE])
  ELSE IF DepthExceeded(d)
  THEN Returned(s, NoBytes, ZeroAddress, gas, ErrDepth,
                [NoTrace EXCEPT !.guard = TRUE])
  ELSE
    LET s1 == Snapshot(s)
        t1 == [NoTrace EXCEPT !.snapshot = SnapshotId(s), !.snap = s.world,
                              !.guard = TRUE]
    IN IF precompile(rules, addr)
       THEN PrecompileFinish(s1, t1, pc)
       ELSE Running(s1, caller, gas, FALSE, t1)

\* EVM.CallCode up to the dispatch.
CallCode(s, d, rules, caller, addr, gas, value, pc) ==
  IF DepthExceeded(d) THEN Returned(s, NoBytes, ZeroAddress, gas, ErrDepth, NoTrace)
  ELSE IF GuardDeclines(s, caller, value)
  THEN Returned(s, NoBytes, ZeroAddress, gas, ErrInsufficientBalance,
                [NoTrace EXCEPT !.guard = TRUE])
  ELSE
    LET s1 == Snapshot(s)
        t1 == [NoTrace EXCEPT !.snapshot = SnapshotId(s), !.snap = s.world,
                              !.guard = TRUE]
    IN IF precompile(rules, addr)
       THEN PrecompileFinish(s1, t1, pc)
       ELSE Running(s1, caller, gas, FALSE, t1)

\* EVM.DelegateCall up to the dispatch.
DelegateCall(s, d, rules, caller, addr, gas, pc) ==
  IF DepthExceeded(d) THEN Returned(s, NoBytes, ZeroAddress, gas, ErrDepth, NoTrace)
  ELSE
    LET s1 == Snapshot(s)
        t1 == [NoTrace EXCEPT !.snapshot = SnapshotId(s), !.snap = s.world]
    IN IF precompile(rules, addr)
       THEN PrecompileFinish(s1, t1, pc)
       ELSE Running(s1, caller, gas, FALSE, t1)

\* StaticCall with the touch of the target before the snapshot.
StaticCall_TouchFirst(s, d, rules, caller, addr, gas, pc) ==
  IF DepthExceeded(d) THEN Returned(s, NoBytes, ZeroAddress, gas, ErrDepth, NoTrace)
  ELSE
    LET s1 == AddBalance(s, addr, 0)
        s2 == Snapshot(s1)
        t1 == [NoTrace EXCEPT !.snapshot = SnapshotId(s1), !.snap = s1.world]
    IN IF precompile(rules, addr)
       THEN PrecompileFinish(s2, t1, pc)
       ELSE Running(s2, addr, gas, TRUE, t1)

\* EVM.StaticCall up to the dispatch.
StaticCall(s, d, rules, caller, addr, gas, pc) ==
  IF DepthExceeded(d) THEN Returned(s, NoBytes, ZeroAddress, gas, ErrDepth, NoTrace)
  ELSE
    LET s1 == Snapshot(s)
        t1 == [NoTrace EXCEPT !.snapshot = SnapshotId(s), !.snap = s.world]
        s2 == AddBalance(s1, addr, 0)
    IN IF precompile(rules, addr)
       THEN PrecompileFinish(s2, t1, pc)
       ELSE Running(s2, addr, gas, TRUE, t1)

\* ----------------------------------------------------------- create family
\* codeAndHash.Hash
Hash(code) == Keccak256Hash(code)

\* NonceAdd1 in unbounded arithmetic.
NonceAdd1_NoWrap(nonce) == nonce + 1

\* nonce+1 in the arithmetic of the nonce type.
NonceAdd1(nonce) == (nonce + 1) % Pow2(NonceBits)
\* NonceOverflows without the check.
NonceOverflows_Never(nonce) == FALSE
\* nonce+1 < nonce
NonceOverflows(nonce) == NonceAdd1(nonce) < nonce

\* What create changes before it looks for a collision: the nonce of the
\* caller and, under Berlin, the access list.
\* BumpNonce without the SetNonce.
BumpNonce_Skip(s, caller, nonce) == s
BumpNonce(s, caller, nonce) == SetNonce(s, caller, NonceAdd1(nonce))
\* MarkAccessed without the AddAddressToAccessList.
MarkAccessed_Skip(s, rules, address) == s
\* "We add this to the access list _before_ taking a snapshot".
MarkAccessed(s, rules, address) ==
  IF rules.IsBerlin THEN AddAddressToAccessList(s, address) ELSE s

\* "Ensure there's no existing contract already at the designated address".
AddressCollides(s, address) ==
  LET contractHash == GetCodeHash(s, address)
  IN GetNonce(s, address) # 0
       \/ (contractHash # ZeroHash /\ contractHash # emptyCodeHash)

\* CollisionGas that hands the gas back.
CollisionGas_Keep(gas) == gas

\* The gas create returns with an address collision.
CollisionGas(gas) == 0

\* EVM.create up to the dispatch.
create(s, d, rules, caller, codeAndHash, gas, value, address, typ) ==
  IF DepthExceeded(d) THEN Returned(s, NoBytes, ZeroAddress, gas, ErrDepth, NoTrace)
  ELSE IF GuardDeclines(s, caller, value)
  THEN Returned(s, NoBytes, ZeroAddress, gas, ErrInsufficientBalance,
                [NoTrace EXCEPT !.guard = TRUE])
  ELSE
    LET nonce == GetNonce(s, caller)
        t0 == [NoTrace EXCEPT !.guard = TRUE]
    IN IF NonceOverflows(nonce)
       THEN Returned(s, NoBytes, ZeroAddress, gas, ErrNonceUintOverflow, t0)
       ELSE
         LET s1 == BumpNonce(s, caller, nonce)
             s2 == MarkAccessed(s1, rules, address)
         IN IF AddressCollides(s2, address)
            THEN Returned(s2, NoBytes, ZeroAddress, CollisionGas(gas),
                          ErrContractAddressCollision, t0)
            ELSE
              LET s3 == Snapshot(s2)
                  s4 == CreateAccount(s3, address)
                  s5 == IF rules.IsEIP158 THEN SetNonce(s4, address, 1) ELSE s4
                  s6 == Transfer(s5, caller, address, value)
                  t6 == [t0 EXCEPT !.snapshot = SnapshotId(s2), !.snap = s2.world,
                                   !.transfers = 1]
              IN Running(s6, address, gas, FALSE, t6)

\* CodeError with the check of the prefix before the check of the size.
CodeError_PrefixFirst(rules, ret, err) ==
  LET err1 == IF err = Nil /\ ret.len >= 1 /\ ret.first = 239 /\ rules.IsLondon
              THEN ErrInvalidCode ELSE err
  IN IF err1 = Nil /\ rules.IsEIP158 /\ ret.len > MaxCodeSize
     THEN ErrMaxCodeSizeExceeded ELSE err1

\* The error after the checks of the code size and of the 0xEF prefix.
CodeError(rules, ret, err) ==
  LET err1 == IF err = Nil /\ rules.IsEIP158 /\ ret.len > MaxCodeSize
              THEN ErrMaxCodeSizeExceeded ELSE err
  IN IF err1 = Nil /\ ret.len >= 1 /\ ret.first = 239 /\ rules.IsLondon
     THEN ErrInvalidCode ELSE err1

\* Contract.UseGas
UseGas(contractGas, amount) ==
  IF contractGas < amount THEN [ok |-> FALSE, gas |-> contractGas]
  ELSE [ok |-> TRUE, gas |-> contractGas - amount]

\* CodeStoreGas with the sign of the charge flipped.
CodeStoreGas_Negative(ret) == 0 - ret.len * CreateDataGas

\* The gas required to store the code.
CodeStoreGas(ret) == ret.len * CreateDataGas

\* CreateReverts without the exception of the legacy rules.
CreateReverts_Always(rules, err) == err # Nil

\* Whether create reverts to its snapshot on the error.
CreateReverts(rules, err) ==
  err # Nil /\ (rules.IsHomestead \/ err # ErrCodeStoreOutOfGas)

\* CreateGasOnError that consumes the gas of a revert too.
CreateGasOnError_Zero(err, contractGas) == 0

\* The gas left to the contract of a create that reverts.
CreateGasOnError(err, contractGas) ==
  IF err # ErrExecutionReverted THEN UseGas(contractGas, contractGas).gas
  ELSE contractGas

\* EVM.create from the return of interpreter.Run, which handed back (ret, err)
\* and left contractGas in the contract.
createFinish(s, rules, trace, address, ret, contractGas, err) ==
  LET err2 == CodeError(rules, ret, err)
      createDataGas == CodeStoreGas(ret)
      used == UseGas(contractGas, createDataGas)
      stored == err2 = Nil /\ used.ok
      s1 == IF stored THEN SetCode(s, address, ret) ELSE s
      gas1 == IF err2 = Nil THEN used.gas ELSE contractGas
      err3 == IF err2 = Nil /\ ~used.ok THEN ErrCodeStoreOutOfGas ELSE err2
      reverts == CreateReverts(rules, err3)
      s2 == IF reverts THEN RevertToSnapshot(s1, trace.snapshot) ELSE s1
      gas2 == IF reverts THEN CreateGasOnError(err3, gas1) ELSE gas1
  IN Returned(s2, ret, address, gas2, err3,
              [trace EXCEPT !.reverted = reverts,
                            !.handed = [ret |-> ret, gas |-> contractGas, err |-> err]])

\* EVM.Create
Create(s, d, rules, caller, code, gas, value) ==
  LET contractAddr == CreateAddress(caller, GetNonce(s, caller))
  IN create(s, d, rules, caller, code, gas, value, contractAddr, "CREATE")

\* EVM.Create2
Create2(s, d, rules, caller, code, gas, endowment, salt) ==
  LET contractAddr == CreateAddress2(caller, salt, Hash(code))
  IN create(s, d, rules, caller, code, gas, endowment, contractAddr, "CREATE2")

VARIABLES
  StateDB,     \* the state store: accounts, access set, revisions
  depth,       \* evm.depth
  chainRules,  \* evm.chainRules
  stack,       \* the frames whose interpreter run has not returned yet
  last,        \* what the step just taken returned, NoResult if nothing
  nops,        \* orchestrator invocations so far
  abort,       \* evm.abort
  TxContext    \* evm.TxContext

vars == <<StateDB, depth, chainRules, stack, last, nops, abort, TxContext>>


\* ----------------------------------------------------------------- the state
\* The store before the first operation: account 10 holds one unit; account
\* 11 is absent or a deployed contract, and beside a deployed contract account
\* 10 has either never created a contract or is one creation away from the
\* largest nonce.
InitWorlds ==
  {[EmptyWorld EXCEPT !.exist[10] = TRUE, !.bal[10] = 1, !.nonce[10] = n,
                      !.exist[11] = c, !.code[11] = IF c THEN Bytes(96, 1) ELSE NoBytes,
                      !.nonce[11] = IF c THEN 1 ELSE 0] :
     n \in {0, MaxNonce - 1}, c \in BOOLEAN} \
  {[EmptyWorld EXCEPT !.exist[10] = TRUE, !.bal[10] = 1, !.nonce[10] = MaxNonce - 1]}
\* The depth at which the modelled part of the recursion tree is rooted.
StartDepths == {0, CallCreateDepth}

NoResult == [op |-> "none"]
\* The transaction contexts an EVM is given: the origin and a gas price.
TxContexts == {[Origin |-> o, GasPrice |-> p] : o \in Origins, p \in {1, 2}}

Init ==
  /\ StateDB \in {NewStateDB(w) : w \in InitWorlds}
  /\ depth \in StartDepths
  /\ chainRules \in {Rules(f) : f \in Forks}
  /\ stack = <<>>
  /\ last = NoResult
  /\ nops = 0
  /\ abort = 0
  /\ TxContext = [Origin |-> 10, GasPrice |-> 1]

\* Whether an enclosing frame runs in read-only mode.
InStatic == \E i \in 1..Len(stack) : stack[i].readOnly
\* The caller of the next operation: the contract of the running frame, or an
\* origin when no frame runs.
Callers == IF stack = <<>> THEN Origins ELSE {Head(stack).self}
\* The gas the caller can pass on.
GasBudgets ==
  IF stack = <<>> THEN TopGas ELSE {g \in GasVals : g <= Head(stack).gasIn}

\* The operation op(caller, addr, value, gas) is invoked and out is what its
\* code does up to its return or up to the dispatch of the interpreter, which
\* increments the depth for the run.
Invoke(op, caller, addr, value, gas, out) ==
  /\ nops < MaxOps
  /\ out.kind = "run" => Len(stack) < MaxFrames
  /\ nops' = nops + 1
  /\ StateDB' = out.db
  /\ IF out.kind = "return"
     THEN /\ last' = [op |-> op, caller |-> caller, addr |-> addr, value |-> value,
                      gasIn |-> gas, depth |-> depth, pre |-> StateDB,
                      ret |-> out.ret, address |-> out.address, gas |-> out.gas,
                      err |-> out.err, trace |-> out.trace]
          /\ UNCHANGED <<stack, depth>>
     ELSE /\ stack' = <<[op |-> op, caller |-> caller, addr |-> addr, value |-> value,
                         gasIn |-> gas, depth |-> depth, pre |-> StateDB,
                         self |-> out.self, readOnly |-> out.readOnly,
                         trace |-> out.trace]>> \o stack
          /\ depth' = depth + 1
          /\ last' = NoResult
  /\ UNCHANGED <<chainRules, abort, TxContext>>

DoCall ==
  \E caller \in Callers, addr \in Addr, gas \in GasBudgets, value \in Values :
    \E pc \in PrecompiledOutcomes(gas) :
      /\ InStatic => value = 0
      /\ Invoke("Call", caller, addr, value, gas,
                Call(StateDB, depth, chainRules, caller, addr, gas, value, pc))

DoCallCode ==
  \E caller \in Callers, addr \in Addr, gas \in GasBudgets, value \in Values :
    \E pc \in PrecompiledOutcomes(gas) :
      Invoke("CallCode", caller, addr, value, gas,
             CallCode(StateDB, depth, chainRules, caller, addr, gas, value, pc))

DoDelegateCall ==
  \E caller \in Callers, addr \in Addr, gas \in GasBudgets :
    \E pc \in PrecompiledOutcomes(gas) :
      Invoke("DelegateCall", caller, addr, 0, gas,
             DelegateCall(StateDB, depth, chainRules, caller, addr, gas, pc))

DoStaticCall ==
  \E caller \in Callers, addr \in Addr, gas \in GasBudgets :
    \E pc \in PrecompiledOutcomes(gas) :
      Invoke("StaticCall", caller, addr, 0, gas,
             StaticCall(StateDB, depth, chainRules, caller, addr, gas, pc))

DoCreate ==
  \E caller \in Callers, code \in InitCodes, gas \in GasBudgets, value \in Values :
    /\ ~InStatic
    /\ Invoke("Create", caller, CreateAddress(caller, GetNonce(StateDB, caller)),
              value, gas,
              Create(StateDB, depth, chainRules, caller, code, gas, value))

DoCreate2 ==
  \E caller \in Callers, code \in InitCodes, gas \in GasBudgets, value \in Values,
     salt \in Salts :
    /\ ~InStatic
    /\ Invoke("Create2", caller, CreateAddress2(caller, salt, Hash(code)), value, gas,
              Create2(StateDB, depth, chainRules, caller, code, gas, value, salt))

\* The interpreter writes a storage slot of the running contract.
InterpStore ==
  /\ stack # <<>>
  /\ ~InStatic
  /\ LET self == Head(stack).self
     IN /\ StateDB.world.storage[self] = 0
        /\ StateDB' = SetState(StateDB, self, 1)
  /\ last' = NoResult
  /\ UNCHANGED <<depth, chainRules, stack, nops, abort, TxContext>>

\* interpreter.Run returns (ret, err) and leaves gas in the contract; the depth
\* is decremented and the operation that dispatched the run finishes.
InterpReturn ==
  /\ stack # <<>>
  /\ \E ret \in Outputs \cup {RevertOutput}, gas \in GasVals, err \in RunErrors :
       LET f == Head(stack)
           out == IF f.op \in {"Create", "Create2"}
                  THEN createFinish(StateDB, chainRules, f.trace, f.addr, ret, gas, err)
                  ELSE CallFinish(StateDB, f.trace, ret, gas, err)
       IN /\ gas <= f.gasIn
          /\ f.op \notin {"Create", "Create2"} => ret \in CallOutputs
          /\ err = ErrExecutionReverted => ret = RevertOutput
          /\ err = ErrFault => ret = NoBytes
          /\ StateDB' = out.db
          /\ last' = [op |-> f.op, caller |-> f.caller, addr |-> f.addr,
                      value |-> f.value, gasIn |-> f.gasIn, depth |-> f.depth,
                      pre |-> f.pre, ret |-> out.ret, address |-> out.address,
                      gas |-> out.gas, err |-> out.err, trace |-> out.trace]
  /\ stack' = Tail(stack)
  /\ depth' = depth - 1
  /\ UNCHANGED <<chainRules, nops, abort, TxContext>>

Next ==
  \/ DoCall
  \/ DoCallCode
  \/ DoDelegateCall
  \/ DoStaticCall
  \/ DoCreate
  \/ DoCreate2
  \/ InterpStore
  \/ InterpReturn

Spec == Init /\ [][Next]_vars

\* ------------------------------------------------- cancellation and reset
\* EVM.Cancel: atomic.StoreInt32(&evm.abort, 1), from any thread at any time.
Cancel ==
  /\ abort' = 1
  /\ UNCHANGED <<StateDB, depth, chainRules, stack, last, nops, TxContext>>

\* EVM.Cancelled
Cancelled == abort = 1

\* Reset that starts the new transaction with the flag cleared.
Reset_ClearsAbort ==
  /\ stack = <<>>
  /\ \E txCtx \in TxContexts, w \in InitWorlds :
       /\ TxContext' = txCtx
       /\ StateDB' = NewStateDB(w)
  /\ abort' = 0
  /\ last' = NoResult
  /\ UNCHANGED <<depth, chainRules, stack, nops>>

\* EVM.Reset(txCtx, statedb), between two operations ("not threadsafe"): the
\* transaction context and the store are replaced, nothing else is written.
Reset ==
  /\ stack = <<>>
  /\ \E txCtx \in TxContexts, w \in InitWorlds :
       /\ TxContext' = txCtx
       /\ StateDB' = NewStateDB(w)
  /\ last' = NoResult
  /\ UNCHANGED <<depth, chainRules, stack, nops, abort>>

\* One EVM under the London rules, rooted at depth 0.
InitCancel ==
  /\ Init
  /\ depth = 0
  /\ chainRules = Rules("London")

NextCancel ==
  \/ Next
  \/ Cancel
  \/ Reset

\* The operations with Cancel and Reset interleaved.
SpecCancel == InitCancel /\ [][NextCancel]_vars


\* ------------------------------------------------------------------ claims
\* An operation returned in the step just taken.
Done == last.op # "none"
CallOps == {"Call", "CallCode", "DelegateCall", "StaticCall"}
CreateOps == {"Create", "Create2"}
\* Balances, nonces, code and storage of a content of the store.
Core(w) == [bal |-> w.bal, nonce |-> w.nonce, code |-> w.code, storage |-> w.storage]
\* The operation took a snapshot.
TookSnapshot == last.trace.snapshot # NoSnapshot
\* The create returned ErrCodeStoreOutOfGas under pre-Homestead rules.
LegacyCodeStoreFailure ==
  /\ last.op \in CreateOps
  /\ last.err = ErrCodeStoreOutOfGas
  /\ ~chainRules.IsHomestead
\* The errors create and the calls return before they change anything.
EarlyErrors == {ErrDepth, ErrInsufficientBalance, ErrNonceUintOverflow}

\* C1 (as claimed): an operation that took a snapshot and returns an error
\* leaves balances, nonces, code and storage as they were at the snapshot; one
\* that returns no error has undone nothing.
C1_Original ==
  Done /\ TookSnapshot =>
    /\ last.err # Nil => Core(StateDB.world) = Core(last.trace.snap)
    /\ last.err = Nil => ~last.trace.reverted

\* C1 (amended): as C1, except that a create that returns
\* ErrCodeStoreOutOfGas under pre-Homestead rules is not rolled back.
C1_RollbackOrCommit ==
  Done /\ TookSnapshot =>
    /\ last.err # Nil /\ ~LegacyCodeStoreFailure =>
         /\ last.trace.reverted
         /\ Core(StateDB.world) = Core(last.trace.snap)
    /\ last.err = Nil \/ LegacyCodeStoreFailure =>
         /\ ~last.trace.reverted
         /\ ValidRevision(StateDB, last.trace.snapshot)

\* C1 witness: a call that transferred value and then faulted has returned.
C1_Witness ==
  /\ Done
  /\ last.op = "Call" /\ last.value = 1 /\ last.trace.transfers = 1
  /\ last.trace.ran = "interpreter" /\ last.err = ErrFault
  /\ last.trace.reverted

\* C2 (as claimed): every error other than a revert comes with leftover gas 0.
C2_Original ==
  Done /\ last.err \notin {Nil, ErrExecutionReverted} => last.gas = 0

\* C2 (amended): an error other than a revert comes with leftover gas 0 when
\* it is an address collision or arose after the snapshot, except
\* ErrCodeStoreOutOfGas under pre-Homestead rules, which keeps the gas the run
\* left; ErrDepth, ErrInsufficientBalance and ErrNonceUintOverflow hand the
\* given gas back.
C2_GasOnFailure ==
  Done /\ last.err \notin {Nil, ErrExecutionReverted} =>
    IF last.err \in EarlyErrors THEN last.gas = last.gasIn
    ELSE IF LegacyCodeStoreFailure THEN last.gas = last.trace.handed.gas
    ELSE last.gas = 0

\* C2 witness: the interpreter faulted with gas left and the operation
\* returned none.
C2_Witness ==
  /\ Done
  /\ last.err = ErrFault /\ last.trace.ran = "interpreter"
  /\ last.trace.handed.gas > 0 /\ last.gas = 0

\* C3: when the interpreter ends a frame with a revert and leftover gas g, the
\* operation reverts the store to the snapshot of the frame and returns the
\* revert, the output of the interpreter and exactly g.
C3_RevertKeepsGas ==
  Done /\ last.trace.ran = "interpreter"
       /\ last.trace.handed.err = ErrExecutionReverted =>
    /\ last.err = ErrExecutionReverted
    /\ last.gas = last.trace.handed.gas
    /\ last.ret = last.trace.handed.ret
    /\ last.trace.reverted
    /\ StateDB.world = last.trace.snap

\* C3 witness: a create that transferred value was reverted with gas left.
C3_Witness ==
  /\ Done
  /\ last.op \in CreateOps /\ last.value = 1
  /\ last.err = ErrExecutionReverted /\ last.gas = 100
  /\ StateDB.world.bal = last.trace.snap.bal

\* C4: the leftover gas of an operation never exceeds the gas it was given
\* (the interpreter and the precompiles hand back no more than they received).
C4_GasNeverGrows == Done => last.gas <= last.gasIn

\* C4 witness: a create stored code and returned what the charge left.
C4_Witness ==
  /\ Done
  /\ last.op \in CreateOps /\ last.err = Nil
  /\ last.ret.len = 1
  /\ last.gas = last.trace.handed.gas - CreateDataGas

\* C5 (as claimed): an operation invoked with the depth equal to the maximum
\* fails with ErrDepth, hands its gas back and leaves the store as it was.
C5_Original ==
  Done /\ last.depth = CallCreateDepth =>
    /\ last.err = ErrDepth
    /\ last.gas = last.gasIn
    /\ StateDB = last.pre

\* C5 (amended): an operation invoked with the depth above the maximum fails
\* with ErrDepth, hands its gas back and leaves the store as it was; at the
\* maximum or below no operation fails with ErrDepth.
C5_DepthLimit ==
  Done =>
    /\ last.depth > CallCreateDepth =>
         /\ last.err = ErrDepth
         /\ last.gas = last.gasIn
         /\ StateDB = last.pre
    /\ last.depth <= CallCreateDepth => last.err # ErrDepth

\* C5 witness: a create invoked above the maximum has failed with ErrDepth.
C5_Witness ==
  /\ Done
  /\ last.op \in CreateOps /\ last.depth = CallCreateDepth + 1
  /\ last.err = ErrDepth

\* C6: a Call with a value, a CallCode, a Create or a Create2 that passes the
\* depth check and whose caller cannot transfer the value fails with
\* ErrInsufficientBalance, hands its gas back and changes nothing in the store.
C6_GuardDeclined ==
  Done /\ (last.op \in {"CallCode", "Create", "Create2"}
             \/ (last.op = "Call" /\ last.value # 0))
       /\ last.depth <= CallCreateDepth
       /\ ~CanTransfer(last.pre, last.caller, last.value) =>
    /\ last.err = ErrInsufficientBalance
    /\ last.gas = last.gasIn
    /\ StateDB = last.pre

\* C6 witness: a create whose caller lacks the value has been refused.
C6_Witness ==
  /\ Done
  /\ last.op = "Create" /\ last.value = 1
  /\ last.pre.world.bal[last.caller] = 0
  /\ last.err = ErrInsufficientBalance

\* C7: a Call with zero value to an address that does not exist and is no
\* precompile, under the EIP-158 rule, succeeds with no output and its gas,
\* creates no account, transfers nothing and runs nothing.
C7_NoopCall ==
  Done /\ last.op = "Call"
       /\ last.depth <= CallCreateDepth
       /\ last.value = 0
       /\ ~last.pre.world.exist[last.addr]
       /\ ~precompile(chainRules, last.addr)
       /\ chainRules.IsEIP158 =>
    /\ last.err = Nil /\ last.ret = NoBytes /\ last.gas = last.gasIn
    /\ StateDB.world = last.pre.world
    /\ last.trace.transfers = 0
    /\ last.trace.ran = "none"

\* C7 witness: such a call has returned and the address still does not exist.
C7_Witness ==
  /\ Done
  /\ last.op = "Call" /\ last.value = 0 /\ last.addr = 5
  /\ chainRules.IsEIP158 /\ ~chainRules.IsByzantium
  /\ last.err = Nil
  /\ ~Exist(StateDB, 5)

\* The create passed the checks that precede the increment of the nonce.
PassedEarlyChecks ==
  /\ last.op \in CreateOps
  /\ last.depth <= CallCreateDepth
  /\ CanTransfer(last.pre, last.caller, last.value)
  /\ last.pre.world.nonce[last.caller] < MaxNonce
\* The address of the create held a nonce or code when the create was invoked.
TargetOccupied ==
  \/ last.pre.world.nonce[last.addr] # 0
  \/ last.pre.world.exist[last.addr] /\ last.pre.world.code[last.addr] # NoBytes

\* C8 (as claimed): a create at an occupied address returns
\* ErrContractAddressCollision with the gas it was given, and the nonce of the
\* caller is incremented by one.
C8_Original ==
  Done /\ PassedEarlyChecks /\ TargetOccupied =>
    /\ last.err = ErrContractAddressCollision
    /\ last.gas = last.gasIn
    /\ StateDB.world.nonce[last.caller] = last.pre.world.nonce[last.caller] + 1

\* C8 (amended): a create at an occupied address returns
\* ErrContractAddressCollision with leftover gas 0, and the nonce of the caller
\* is incremented by one.
C8_Collision ==
  Done /\ PassedEarlyChecks /\ TargetOccupied =>
    /\ last.err = ErrContractAddressCollision
    /\ last.gas = 0
    /\ StateDB.world.nonce[last.caller] = last.pre.world.nonce[last.caller] + 1

\* C8 witness: a create given gas found a deployed contract at its address.
C8_Witness ==
  /\ Done
  /\ last.op = "Create" /\ last.addr = 11 /\ last.gasIn = 300
  /\ last.pre.world.code[11] # NoBytes
  /\ last.err = ErrContractAddressCollision

\* The errors that stop an operation before its snapshot.
PreconditionErrors == EarlyErrors \cup {ErrContractAddressCollision}

\* C9 (as claimed): an operation that fails with ErrDepth,
\* ErrInsufficientBalance, ErrNonceUintOverflow or
\* ErrContractAddressCollision leaves the store as it was at entry and calls
\* no rollback.
C9_Original ==
  Done /\ last.err \in PreconditionErrors =>
    /\ StateDB = last.pre
    /\ ~last.trace.reverted

\* C9 (amended): ErrDepth, ErrInsufficientBalance and ErrNonceUintOverflow
\* leave the store as it was at entry; ErrContractAddressCollision comes after
\* the increment of the nonce of the caller and, under Berlin, the marking of
\* the address as accessed, and changes nothing else; none of the four takes a
\* snapshot or calls a rollback.
C9_PreconditionFailures ==
  Done /\ last.err \in PreconditionErrors =>
    /\ ~last.trace.reverted
    /\ ~TookSnapshot
    /\ StateDB.revisions = last.pre.revisions
    /\ StateDB.nextRevisionId = last.pre.nextRevisionId
    /\ last.err \in EarlyErrors => StateDB.world = last.pre.world
    /\ last.err = ErrContractAddressCollision =>
         StateDB.world =
           [last.pre.world EXCEPT
              !.nonce[last.caller] = @ + 1,
              !.access = IF chainRules.IsBerlin THEN @ \cup {last.addr} ELSE @]

\* C9 witness: a create under Berlin has failed with a collision at an address
\* it marked as accessed.
C9_Witness ==
  /\ Done
  /\ last.err = ErrContractAddressCollision
  /\ chainRules.IsBerlin
  /\ last.addr \notin last.pre.world.access
  /\ last.addr \in StateDB.world.access

\* C10 (as claimed): once a create has incremented the nonce of its caller, no
\* later step decrements it.
C10_Original ==
  [][(Done /\ last.op \in CreateOps /\ last.err \notin EarlyErrors) =>
       StateDB'.world.nonce[last.caller] >= StateDB.world.nonce[last.caller]]_vars

\* C10 (amended): whatever its outcome, a create that passed the depth,
\* balance and overflow checks returns with the nonce of its caller above the
\* value at entry: its own rollback does not undo the increment (the rollback
\* of an enclosing frame does).
C10_NonceSurvivesCreate ==
  Done /\ last.op \in CreateOps /\ last.err \notin EarlyErrors =>
    StateDB.world.nonce[last.caller] >= last.pre.world.nonce[last.caller] + 1

\* C10 witness: a create was rolled back and the nonce of its caller is one
\* above the value at entry.
C10_Witness ==
  /\ Done
  /\ last.op \in CreateOps /\ last.err = ErrFault /\ last.trace.reverted
  /\ StateDB.world.nonce[last.caller] = last.pre.world.nonce[last.caller] + 1

\* C11: under Berlin a create that passed the depth, balance and overflow
\* checks has marked its address as accessed before its snapshot, and the
\* address is in the access set when the create returns, whatever the outcome;
\* when Berlin is not active the create leaves the access set as it was.
C11_AccessListMarking ==
  Done /\ last.op \in CreateOps /\ last.err \notin EarlyErrors =>
    IF chainRules.IsBerlin
    THEN /\ last.addr \in StateDB.world.access
         /\ TookSnapshot => last.addr \in last.trace.snap.access
    ELSE StateDB.world.access = last.pre.world.access

\* C11 witness: under Berlin a create that faulted was rolled back and its
\* address, not accessed before, is in the access set.
C11_Witness ==
  /\ Done
  /\ last.op \in CreateOps /\ chainRules.IsBerlin
  /\ last.err = ErrFault /\ last.trace.reverted
  /\ last.addr \notin last.pre.world.access
  /\ last.addr \in StateDB.world.access

\* The step ends a create whose run succeeded and left less gas than the
\* storage of its output costs.
CannotPayCodeStore ==
  /\ Done' /\ last'.op \in CreateOps
  /\ last'.trace.ran = "interpreter"
  /\ last'.trace.handed.err = Nil
  /\ last'.trace.handed.gas < CodeStoreGas(last'.trace.handed.ret)
\* What ErrCodeStoreOutOfGas does to the store: under Homestead the content at
\* the snapshot of the frame is restored; before Homestead the step changes
\* nothing, so that the account and the transfer of the frame stay.
CodeStoreFailureEffect ==
  /\ last'.err = ErrCodeStoreOutOfGas
  /\ StateDB'.world.code[last'.addr] = StateDB.world.code[last'.addr]
  /\ IF chainRules.IsHomestead
     THEN last'.trace.reverted /\ StateDB'.world = last'.trace.snap
     ELSE ~last'.trace.reverted /\ StateDB' = StateDB
                               /\ Exist(StateDB', last'.addr)

\* C12 (as claimed): a create whose run succeeded and left less gas than the
\* storage of its output costs returns ErrCodeStoreOutOfGas and stores no
\* code; under Homestead the frame is rolled back, before Homestead it is not.
C12_Original == [][CannotPayCodeStore => CodeStoreFailureEffect]_vars

\* C12 (amended): as C12, for an output that passed the checks of the code
\* size and of the 0xEF prefix; an output that fails one of them returns the
\* error of that check.
C12_CodeStoreOutOfGas ==
  [][CannotPayCodeStore =>
       IF CodeError(chainRules, last'.trace.handed.ret, Nil) = Nil
       THEN CodeStoreFailureEffect
       ELSE last'.err = CodeError(chainRules, last'.trace.handed.ret, Nil)]_vars

\* C12 witness: before Homestead a create with a value has returned
\* ErrCodeStoreOutOfGas and its account holds the value.
C12_Witness ==
  /\ Done
  /\ last.op \in CreateOps /\ last.value = 1
  /\ ~chainRules.IsHomestead
  /\ last.err = ErrCodeStoreOutOfGas
  /\ Exist(StateDB, last.addr) /\ GetBalance(StateDB, last.addr) = 1
  /\ last.pre.world.bal[last.addr] = 0

\* The Call passed the depth check and the transfer guard, and its target is
\* no precompile and holds no code.
CallOfEmptyCode ==
  /\ last.op = "Call"
  /\ last.depth <= CallCreateDepth
  /\ ~CallGuardDeclines(last.pre, last.caller, last.value)
  /\ ~precompile(chainRules, last.addr)
  /\ GetCode(last.pre, last.addr) = NoBytes
\* The Call returned no output, its gas and no error, and ran nothing.
ReturnedUntouched ==
  /\ last.err = Nil /\ last.ret = NoBytes /\ last.gas = last.gasIn
  /\ last.trace.ran = "none"

\* C13 (as claimed): a Call with value v to an account without code returns
\* no output, its gas and no error without a run of the interpreter, and the
\* balance of the target is v higher and that of the caller v lower.
C13_Original ==
  Done /\ CallOfEmptyCode =>
    /\ ReturnedUntouched
    /\ GetBalance(StateDB, last.addr) = GetBalance(last.pre, last.addr) + last.value
    /\ GetBalance(StateDB, last.caller) = GetBalance(last.pre, last.caller) - last.value

\* C13 (amended): as C13 when the target is not the caller; a Call of the
\* caller to itself leaves its balance as it was.  No other balance changes.
C13_EmptyCodeCall ==
  Done /\ CallOfEmptyCode =>
    /\ ReturnedUntouched
    /\ StateDB.world.bal =
         [[last.pre.world.bal EXCEPT ![last.caller] = @ - last.value]
            EXCEPT ![last.addr] = @ + last.value]

\* C13 witness: a Call has moved one unit to another account without code.
C13_Witness ==
  /\ Done
  /\ CallOfEmptyCode /\ last.value = 1 /\ last.addr # last.caller
  /\ last.trace.transfers = 1
  /\ GetBalance(StateDB, last.addr) = GetBalance(last.pre, last.addr) + 1
  /\ GetBalance(StateDB, last.caller) = GetBalance(last.pre, last.caller) - 1

\* The step ends a create with ErrContractAddressCollision.
CollisionReturned ==
  Done' /\ last'.op \in CreateOps /\ last'.err = ErrContractAddressCollision
\* The attempt left the account at its address as it was (the nonce of the
\* caller is incremented, so an address that is the caller itself is left
\* aside for the nonce) and the address still collides.
CollisionLeavesTarget ==
  /\ GetBalance(StateDB', last'.addr) = GetBalance(last'.pre, last'.addr)
  /\ GetCode(StateDB', last'.addr) = GetCode(last'.pre, last'.addr)
  /\ StateDB'.world.storage[last'.addr] = last'.pre.world.storage[last'.addr]
  /\ Exist(StateDB', last'.addr) = Exist(last'.pre, last'.addr)
  /\ last'.addr # last'.caller =>
       GetNonce(StateDB', last'.addr) = GetNonce(last'.pre, last'.addr)
  /\ AddressCollides(StateDB', last'.addr)
\* The step is a further create of the same caller at the address of a create
\* that has just failed with ErrContractAddressCollision, with the same value
\* at the same depth.
CollisionRepeated ==
  /\ Done /\ last.op \in CreateOps /\ last.err = ErrContractAddressCollision
  /\ nops' = nops + 1
  /\ Done' /\ last'.op \in CreateOps
  /\ last'.caller = last.caller /\ last'.addr = last.addr
  /\ last'.value = last.value /\ last'.depth = last.depth

\* C14 (as claimed): a create that fails with ErrContractAddressCollision
\* leaves the account at its address as it was, and a further attempt at the
\* same address fails with ErrContractAddressCollision again.
C14_Original ==
  [][/\ CollisionReturned => CollisionLeavesTarget
     /\ CollisionRepeated => last'.err = ErrContractAddressCollision]_vars

\* C14 (amended): as C14, until the nonce of the caller, which every attempt
\* increments, has reached the largest value: the next attempt fails with
\* ErrNonceUintOverflow and changes nothing.
C14_CollisionIdempotent ==
  [][/\ CollisionReturned => CollisionLeavesTarget
     /\ CollisionRepeated =>
          IF GetNonce(StateDB, last.caller) = MaxNonce
          THEN last'.err = ErrNonceUintOverflow /\ StateDB' = StateDB
          ELSE last'.err = ErrContractAddressCollision]_vars

\* C14 witness: a Create2 has failed with ErrContractAddressCollision for the
\* second time at the same address.
C14_Witness ==
  /\ Done
  /\ last.op = "Create2" /\ last.err = ErrContractAddressCollision
  /\ last.addr # last.caller
  /\ GetNonce(StateDB, last.caller) = GetNonce(last.pre, last.caller) + 1
  /\ nops = 2 /\ stack = <<>>
  /\ GetNonce(StateDB, last.caller) = 2
  /\ GetNonce(StateDB, last.addr) = 1

\* C15: Cancelled() is false in the EVM NewEVM returns and becomes true only
\* by a call of Cancel, which writes the flag and nothing else (the depth,
\* the store, the transaction context and the frames with their gas stay);
\* once true it is true in every later state, after Reset too.
C15_CancelMonotonic ==
  /\ ~Cancelled
  /\ [][/\ Cancelled => Cancelled'
        /\ ~Cancelled /\ Cancelled' =>
             UNCHANGED <<StateDB, depth, chainRules, stack, last, nops, TxContext>>]_vars

\* C15 witness: Cancelled() holds after two operations and a Reset that gave
\* the EVM another transaction context and a fresh store.
C15_Witness ==
  /\ Cancelled
  /\ stack = <<>> /\ nops = 2
  /\ TxContext.GasPrice = 2
  /\ StateDB.revisions = <<>> /\ StateDB.nextRevisionId = 0

\* The step ends an operation that called RevertToSnapshot.
RollbackIssued == Done' /\ last'.trace.reverted
\* The rollback names the snapshot the operation took itself, the first one
\* after its entry; the dispatch of the operation has handed back an error;
\* the revision was still in the store when the rollback was called, with the
\* content recorded by the operation, and is dropped by it.
RollbackInOrder ==
  LET id == last'.trace.snapshot
      atCall == IF last'.trace.ran = "interpreter" THEN StateDB
                ELSE Snapshot(last'.pre)
  IN /\ id # NoSnapshot
     /\ id = last'.pre.nextRevisionId
     /\ last'.trace.ran \in {"precompile", "interpreter"}
     /\ last'.err # Nil
     /\ ValidRevision(atCall, id)
     /\ atCall.revisions[RevisionIndex(atCall, id)].world = last'.trace.snap
     /\ ~ValidRevision(StateDB', id)
     /\ \A i \in 1..Len(StateDB'.revisions) : StateDB'.revisions[i].id < id
\* The step ends an operation that failed a precondition or a Call that took
\* the path of the call that does nothing.
NothingToRollBack ==
  /\ Done'
  /\ \/ last'.err \in PreconditionErrors
     \/ /\ last'.op = "Call" /\ last'.err = Nil
        /\ CallIsNoop(last'.pre, chainRules, last'.addr, last'.value)

\* C16: every call of RevertToSnapshot names the snapshot taken earlier by the
\* operation that calls it, comes after the dispatch of that operation has
\* returned, and finds the revision in the store, so that no snapshot is
\* reverted to twice; an operation that fails a precondition or takes the
\* path of the call that does nothing calls no rollback.
C16_RollbackDiscipline ==
  [][/\ RollbackIssued => RollbackInOrder
     /\ NothingToRollBack =>
          ~last'.trace.reverted /\ last'.trace.ran = "none"]_vars

\* C16 witness: a frame within which a second operation took a snapshot of
\* its own has failed and rolled back to its snapshot, the first one.
C16_Witness ==
  /\ Done
  /\ last.trace.reverted /\ last.trace.ran = "interpreter"
  /\ last.trace.snapshot = 0
  /\ StateDB.nextRevisionId = 2
  /\ StateDB.revisions = <<>>

\* The create passed the depth check and the transfer guard and the nonce of
\* its caller is the largest value of the type.
NonceAtMaximum ==
  /\ last.op \in CreateOps
  /\ last.depth <= CallCreateDepth
  /\ CanTransfer(last.pre, last.caller, last.value)
  /\ GetNonce(last.pre, last.caller) = MaxNonce

\* C17: a create that passed the depth and balance checks and whose caller
\* holds the largest nonce, so that nonce+1 wraps, fails with
\* ErrNonceUintOverflow before it changes anything: the nonce stays, the
\* address is not marked as accessed, no snapshot is taken and the gas is
\* handed back.
C17_NonceOverflow ==
  Done /\ NonceAtMaximum =>
    /\ last.err = ErrNonceUintOverflow
    /\ last.gas = last.gasIn
    /\ last.ret = NoBytes /\ last.address = ZeroAddress
    /\ ~TookSnapshot /\ ~last.trace.reverted
    /\ StateDB = last.pre
    /\ GetNonce(StateDB, last.caller) = MaxNonce

\* C17 witness: under Berlin a create of a caller with the largest nonce has
\* failed and its address is not in the access set.
C17_Witness ==
  /\ Done
  /\ NonceAtMaximum /\ chainRules.IsBerlin
  /\ last.err = ErrNonceUintOverflow
  /\ last.addr \notin StateDB.world.access
  /\ NonceAdd1(GetNonce(StateDB, last.caller)) = 0

\* C18: with the depth incremented for every run the interpreter starts and
\* decremented when it returns, every frame was entered, that is passed its
\* depth check, at a depth not above CallCreateDepth, the frames nest one
\* level apart, and an operation invoked above CallCreateDepth is refused with
\* ErrDepth without a change of the store: the counter never passes
\* CallCreateDepth + 1 and no more than that many frames are ever active.
C18_DepthBounded ==
  /\ \A i \in 1..Len(stack) :
       /\ stack[i].depth <= CallCreateDepth
       /\ stack[i].depth = depth - i
  /\ Len(stack) <= depth
  /\ depth <= CallCreateDepth + 1
  /\ Done =>
       /\ last.err # ErrDepth => last.depth <= CallCreateDepth
       /\ last.depth > CallCreateDepth =>
            /\ last.err = ErrDepth
            /\ StateDB = last.pre
            /\ last.trace = NoTrace

\* C18 witness: within a frame entered at CallCreateDepth an operation has
\* been refused with ErrDepth.
C18_Witness ==
  /\ Done
  /\ last.err = ErrDepth
  /\ stack # <<>>
  /\ Head(stack).depth = CallCreateDepth
  /\ depth = CallCreateDepth + 1
  /\ last.caller = Head(stack).self

\* The operation consults the transfer guard for its value.
Guarded ==
  last.op \in {"CallCode", "Create", "Create2"}
    \/ (last.op = "Call" /\ last.value # 0)
\* The preconditions of the operation in the order of their checks, each with
\* the error it fails with; a later one is looked at only when the earlier
\* ones have passed.  The collision check reads the store after the increment
\* of the nonce of the caller, so the address of the caller itself collides.
FirstFailure ==
  IF last.depth > CallCreateDepth THEN ErrDepth
  ELSE IF Guarded /\ ~CanTransfer(last.pre, last.caller, last.value)
  THEN ErrInsufficientBalance
  ELSE IF last.op \in CreateOps /\ GetNonce(last.pre, last.caller) = MaxNonce
  THEN ErrNonceUintOverflow
  ELSE IF last.op \in CreateOps
            /\ (TargetOccupied \/ last.addr = last.caller)
  THEN ErrContractAddressCollision
  ELSE Nil

\* C19: the preconditions are checked in a fixed order and the first that
\* fails gives the error: the depth before the transfer guard, which is not
\* consulted for an operation that is too deep, and for a create then the
\* overflow of the nonce and then the collision; the snapshot is taken only
\* when all of them have passed.
C19_PreconditionOrder ==
  Done =>
    /\ FirstFailure # Nil => last.err = FirstFailure
    /\ FirstFailure = Nil => last.err \notin PreconditionErrors
    /\ last.err = ErrDepth => ~last.trace.guard
    /\ TookSnapshot => FirstFailure = Nil
    /\ FirstFailure # Nil => ~TookSnapshot /\ last.trace.ran = "none"

\* C19 witness: a CallCode that is too deep and whose caller lacks the value
\* has failed with ErrDepth.
C19_Witness ==
  /\ Done
  /\ last.op = "CallCode"
  /\ last.depth > CallCreateDepth
  /\ ~CanTransfer(last.pre, last.caller, last.value)
  /\ last.err = ErrDepth

\* The Call r passed its preconditions and is not the call that does nothing.
CallProceeds(r) ==
  /\ r.op = "Call"
  /\ r.depth <= CallCreateDepth
  /\ ~CallGuardDeclines(r.pre, r.caller, r.value)
  /\ ~CallIsNoop(r.pre, chainRules, r.addr, r.value)
\* The Call r took its snapshot of the store as it was at entry, where a
\* target to materialise does not exist yet, and called Transfer once.
SnapshotThenTransfer(r) ==
  /\ r.trace.snapshot = SnapshotId(r.pre)
  /\ r.trace.snap = r.pre.world
  /\ r.trace.transfers = 1
\* The store s holds the target of the Call r and the value has moved.
TargetFunded(r, s) ==
  /\ Exist(s, r.addr)
  /\ s.world.bal =
       [[r.pre.world.bal EXCEPT ![r.caller] = @ - r.value]
          EXCEPT ![r.addr] = @ + r.value]
\* The step hands the contract of a Call to the interpreter.
CallDispatched ==
  /\ Len(stack') = Len(stack) + 1
  /\ Head(stack').op = "Call"
\* The step ends a Call that passed its preconditions and is not the call
\* that does nothing.
CallReturned == Done' /\ CallProceeds(last')

\* C20: a Call that passes its preconditions and is not the call that does
\* nothing takes its snapshot first, then creates a target that does not
\* exist, then calls Transfer exactly once, for a zero value too, and only
\* then runs the precompile or the interpreter; when the run fails the
\* rollback leaves neither the account nor the transfer.
C20_CallMaterialisation ==
  [][/\ CallDispatched =>
          /\ CallProceeds(Head(stack'))
          /\ SnapshotThenTransfer(Head(stack'))
          /\ TargetFunded(Head(stack'), StateDB')
     /\ CallReturned =>
          /\ SnapshotThenTransfer(last')
          /\ last'.err # Nil =>
               /\ last'.trace.reverted
               /\ StateDB'.world = last'.pre.world
          /\ last'.err = Nil /\ last'.trace.ran # "interpreter" =>
               TargetFunded(last', StateDB')]_vars

\* C20 witness: a Call with zero value of a precompile that did not exist
\* has failed, Transfer was called once, and the account does not exist.
C20_Witness ==
  /\ Done
  /\ CallProceeds(last) /\ last.value = 0
  /\ precompile(chainRules, last.addr)
  /\ ~Exist(last.pre, last.addr)
  /\ last.trace.transfers = 1 /\ last.trace.ran = "precompile"
  /\ last.err = ErrFault
  /\ ~Exist(StateDB, last.addr)

\* The step ends a create whose run returned without an error.
DeploymentRunSucceeded ==
  /\ Done' /\ last'.op \in CreateOps
  /\ last'.trace.ran = "interpreter"
  /\ last'.trace.handed.err = Nil
\* The create ended with the error err and stored nothing: the store is the
\* one at the snapshot of the frame or, with no rollback, the one before the
\* step.
FailsWith(err) ==
  /\ last'.err = err
  /\ IF last'.trace.reverted
     THEN /\ StateDB'.world = last'.trace.snap
          /\ GetCode(StateDB', last'.addr) = NoBytes
     ELSE StateDB' = StateDB
\* The create stored the output ret as the code of the new account and paid
\* the charge out of the gas g the run left.
StoresCode(ret, g) ==
  /\ last'.err = Nil
  /\ last'.gas = g - CreateDataGas * ret.len
  /\ StateDB' = SetCode(StateDB, last'.addr, ret)

\* C21: after a run of deployment code that returned no error the checks are
\* made in order and the first that fails gives the error: the size of the
\* output under EIP-158, the 0xEF prefix under London, the charge of
\* CreateDataGas per byte against the gas left; the code is stored only when
\* all three pass, and the output of the run is returned in every case.
C21_PostRunValidations ==
  [][DeploymentRunSucceeded =>
       LET ret == last'.trace.handed.ret
           g == last'.trace.handed.gas
       IN /\ last'.ret = ret
          /\ last'.address = last'.addr
          /\ IF chainRules.IsEIP158 /\ ret.len > MaxCodeSize
             THEN FailsWith(ErrMaxCodeSizeExceeded)
             ELSE IF chainRules.IsLondon /\ ret.len >= 1 /\ ret.first = 239
             THEN FailsWith(ErrInvalidCode)
             ELSE IF g < CreateDataGas * ret.len
             THEN FailsWith(ErrCodeStoreOutOfGas)
             ELSE StoresCode(ret, g)]_vars

\* C21 witness: under London a run handed back an output that is too long
\* and starts with 0xEF, and the create returned it with
\* ErrMaxCodeSizeExceeded.
C21_Witness ==
  /\ Done
  /\ last.op \in CreateOps /\ chainRules.IsLondon
  /\ last.trace.handed.err = Nil
  /\ last.ret = Bytes(239, MaxCodeSize + 1)
  /\ last.err = ErrMaxCodeSizeExceeded

\* The revisions of the store s older than the snapshot id.
RevisionsBefore(s, id) ==
  SelectSeq(s.revisions, LAMBDA r : r.id < id)
\* The step ends, with a rollback, an operation invoked by a running frame.
InnerRollback == RollbackIssued /\ stack' # <<>>
\* The store is as it was when the operation took its snapshot: what the
\* enclosing frames did before is in it, and their snapshots are kept.
RestoresOwnSnapshot ==
  /\ StateDB'.world = last'.trace.snap
  /\ Core(last'.trace.snap) =
       [Core(last'.pre.world) EXCEPT
          !.nonce[last'.caller] =
            IF last'.op \in CreateOps THEN @ + 1 ELSE @]
  /\ StateDB'.revisions = last'.pre.revisions
  /\ \A i \in 1..Len(stack') : ValidRevision(StateDB', stack'[i].trace.snapshot)
\* The step ends, with a rollback, an operation within which another
\* operation took a snapshot that it did not roll back.
OuterRollbackAfterInner ==
  /\ RollbackIssued
  /\ \E i \in 1..Len(StateDB.revisions) :
       StateDB.revisions[i].id > last'.trace.snapshot
\* Nothing of the inner operation is left: the store is as it was at the
\* snapshot of the enclosing one, and the snapshot of the inner one is gone.
UndoesInner ==
  /\ StateDB'.world = last'.trace.snap
  /\ StateDB'.revisions = RevisionsBefore(StateDB, last'.trace.snapshot)

SnapshotThenTouch(s, addr) == AddBalance(Snapshot(s), addr, 0)
\* The StaticCall r consulted no guard, called no Transfer, and took its
\* snapshot of the store as it was at entry, before the touch.
StaticTrace(r) ==
  /\ ~r.trace.guard
  /\ r.trace.transfers = 0
  /\ r.trace.snapshot = SnapshotId(r.pre)
  /\ r.trace.snap = r.pre.world
\* The step hands a contract to the interpreter.
Dispatched == Len(stack') = Len(stack) + 1
\* The step ends a StaticCall that passed the depth check.
StaticReturned ==
  /\ Done' /\ last'.op = "StaticCall"
  /\ last'.depth <= CallCreateDepth

CallCodeTrace(r) ==
  /\ r.trace.guard
  /\ r.trace.transfers = 0
  /\ r.trace.snapshot = SnapshotId(r.pre)
  /\ r.trace.snap = r.pre.world
\* The step ends a CallCode that passed the depth check.
CallCodeReturned ==
  /\ Done' /\ last'.op = "CallCode"
  /\ last'.depth <= CallCreateDepth

\* C24: CallCode consults the transfer guard whatever the value, zero too,
\* and when the guard declines returns ErrInsufficientBalance with its gas and
\* an unchanged store; when the guard approves it calls no Transfer and
\* creates no account, so that nothing but the snapshot changes before the
\* dispatch, and the code of the target runs in a frame whose own address is
\* that of the caller.
C24_CallCode ==
  [][/\ CallCodeReturned =>
          /\ last'.trace.guard /\ last'.trace.transfers = 0
          /\ IF ~CanTransfer(last'.pre, last'.caller, last'.value)
             THEN /\ last'.err = ErrInsufficientBalance
                  /\ last'.gas = last'.gasIn
                  /\ StateDB' = last'.pre
             ELSE /\ last'.err # ErrInsufficientBalance
                  /\ CallCodeTrace(last')
                  /\ last'.trace.ran = "precompile" /\ last'.err = Nil =>
                       StateDB' = Snapshot(last'.pre)
     /\ Dispatched /\ Head(stack').op = "CallCode" =>
          LET f == Head(stack')
          IN /\ CanTransfer(StateDB, f.caller, f.value)
             /\ CallCodeTrace(f)
             /\ f.self = f.caller
             /\ StateDB' = Snapshot(StateDB)]_vars

\* C24 witness: a CallCode with a value runs the code of another account in
\* a frame of the caller, and the value is still with the caller.
C24_Witness ==
  /\ stack # <<>>
  /\ Head(stack).op = "CallCode" /\ Head(stack).value = 1
  /\ Head(stack).addr # Head(stack).caller
  /\ Head(stack).self = Head(stack).caller
  /\ Head(stack).trace.guard
  /\ GetBalance(StateDB, Head(stack).caller) = 1
  /\ GetBalance(StateDB, Head(stack).addr) = 0
  /\ StateDB.world = Head(stack).pre.world


=============================================================================
